---- MODULE Spec2Model ----
(***************************************************************************)
(* A model of src/main.cpp: the library catalog (Book and its three        *)
(* variants, Catalog, User and its two variants, Library) and the menu     *)
(* loop of main() reading std::cin.                                        *)
(*                                                                         *)
(* Book objects live in an object store (heap): an address is what a       *)
(* Book&, a Book* or a unique_ptr<Book> designates.  Strings are           *)
(* sequences of one-character strings.  A double is counted in tenths.     *)
(***************************************************************************)
EXTENDS Integers, Sequences, FiniteSets, TLC

VARIABLES
    heap,        \* the Book objects: address -> object, NoBook where none lives
    books,       \* Catalog::books, the owned addresses in insertion order
    users,       \* Library::users, the User objects in insertion order
    nextBookId,  \* Library::nextBookId
    owned,       \* addresses of the Book objects the calling code owns
    retOp,       \* the last call made on the classes: the member function,
    retObj,      \*   the object (or, of search, the predicate) it was called with,
    retVal,      \*   and the value it returned
    cycle,       \* per Book object the calling code constructed: the last call on it
    issued,      \* every value newBookId() has returned, in call order
    pc,          \* main(): the statement it is at
    cin,         \* std::cin: [buf, fail, eof]
    closed,      \* no more input will arrive on std::cin
    loc,         \* main(): the locals of the loop body
    act          \* main(): what the last statement did

vars == <<heap, books, users, nextBookId, owned, retOp, retObj, retVal, cycle,
          issued,
          pc, cin, closed, loc, act>>

libVars  == <<heap, books, users, nextBookId, owned, retOp, retObj, retVal,
             cycle, issued>>
mainVars == <<pc, cin, closed, loc, act>>

-----------------------------------------------------------------------------
(* Bounds of the model *)

MaxOwned == 1       \* Book objects the calling code constructs
MaxStored == 2      \* books the calling code adds to the catalog
MaxIds == 4         \* calls of newBookId() by the calling code
MaxUsers == 2       \* users the calling code adds
MaxBorrowed == 7    \* borrowBook() calls outstanding on one user
MaxAdded == 1       \* "Add book" commands typed at the menu
MaxMenuUsers == 1   \* "Add student"/"Add librarian" commands typed at the menu

SeedBooks == 3      \* the books main() adds before the loop
StudentLimit == 5   \* Student::canBorrow
IgnoreMax == 1000   \* cin.ignore(1000, '\n')

HeapSize == SeedBooks + MaxAdded + MaxOwned + MaxStored + 1
Addr == 1..HeapSize

-----------------------------------------------------------------------------
(* Sequences *)

Range(s) == {s[i] : i \in 1..Len(s)}
Last(s) == s[Len(s)]

-----------------------------------------------------------------------------
(* class Author *)

Author_ctor(n) == [name |-> n]
Author_getName(a) == a.name

-----------------------------------------------------------------------------
(* class Book and its variants *)

NoBook == [kind |-> "none"]

Book_ctor(i, t, a, y, g) ==
    [id |-> i, title |-> t, author |-> a, year |-> y,
     available |-> TRUE, genre |-> g]

PrintedBook_ctor(i, t, a, y, g, p) ==
    [kind |-> "PrintedBook", pages |-> p] @@ Book_ctor(i, t, a, y, g)

EBook_ctor(i, t, a, y, g, s) ==
    [kind |-> "EBook", sizeMB |-> s] @@ Book_ctor(i, t, a, y, g)

AudioBook_ctor(i, t, a, y, g, d) ==
    [kind |-> "AudioBook", duration |-> d] @@ Book_ctor(i, t, a, y, g)

\* bool borrow(): the value returned and the object afterwards
Book_borrow_unchecked(b) ==
    [val |-> TRUE, self |-> [b EXCEPT !.available = FALSE]]

Book_borrow(b) ==
    IF ~b.available
    THEN [val |-> FALSE, self |-> b]
    ELSE [val |-> TRUE, self |-> [b EXCEPT !.available = FALSE]]

Book_returnBook_toggle(b) == [b EXCEPT !.available = ~b.available]

Book_returnBook(b) == [b EXCEPT !.available = TRUE]

Book_getTitle(b) == b.title

\* clone(): the copy constructor of the object's own class
PrintedBook_clone(b) ==
    [kind |-> "PrintedBook", pages |-> b.pages, id |-> b.id, title |-> b.title,
     author |-> b.author, year |-> b.year, available |-> b.available,
     genre |-> b.genre]

EBook_clone(b) ==
    [kind |-> "EBook", sizeMB |-> b.sizeMB, id |-> b.id, title |-> b.title,
     author |-> b.author, year |-> b.year, available |-> b.available,
     genre |-> b.genre]

AudioBook_clone(b) ==
    [kind |-> "AudioBook", duration |-> b.duration, id |-> b.id,
     title |-> b.title, author |-> b.author, year |-> b.year,
     available |-> b.available, genre |-> b.genre]

Book_clone(b) ==
    CASE b.kind = "PrintedBook" -> PrintedBook_clone(b)
      [] b.kind = "EBook" -> EBook_clone(b)
      [] b.kind = "AudioBook" -> AudioBook_clone(b)

\* operator new: the address of storage no object lives in
Alloc(h) == CHOOSE a \in Addr : h[a].kind = "none" /\
                \A x \in Addr : h[x].kind = "none" => a <= x

HasRoom(h) == \E a \in Addr : h[a].kind = "none"

-----------------------------------------------------------------------------
(* class Catalog *)

\* addBook(const Book& b), b the object at address a
Catalog_addBook_alias(h, bks, a) ==
    [heap |-> h, books |-> Append(bks, a)]

Catalog_addBook(h, bks, a) ==
    LET n == Alloc(h)
    IN  [heap |-> [h EXCEPT ![n] = Book_clone(h[a])], books |-> Append(bks, n)]

\* A predicate handed to search(): code of the caller that gets a Book& and
\* can use what Book makes public.  Book has no accessor for available, so
\* the predicate "available" finds out by borrow(), undone by returnBook().
\* Pred gives the predicate's value and the object after the call.
Preds == {"available", "titleDune", "any"}

Dune == <<"D", "u", "n", "e">>
Emma == <<"E", "m", "m", "a">>

Pred(p, b) ==
    CASE p = "available" ->
            LET r == Book_borrow(b)
            IN  IF r.val THEN [val |-> TRUE, self |-> Book_returnBook(r.self)]
                ELSE [val |-> FALSE, self |-> r.self]
      [] p = "titleDune" -> [val |-> Book_getTitle(b) = Dune, self |-> b]
      [] p = "any" -> [val |-> TRUE, self |-> b]

\* search(Pred p): the loop over books, from its i-th element on; the value
\* is the objects afterwards and the vector returned
RECURSIVE SearchLoop(_, _, _, _, _)
SearchLoop(h, bks, p, i, result) ==
    IF i > Len(bks) THEN [heap |-> h, result |-> result]
    ELSE LET r == Pred(p, h[bks[i]])
         IN  SearchLoop([h EXCEPT ![bks[i]] = r.self], bks, p, i + 1,
                        IF r.val THEN Append(result, bks[i]) ELSE result)

Catalog_search_first(h, bks, p) ==
    LET r == SearchLoop(h, bks, p, 1, <<>>)
    IN  [heap |-> r.heap,
         result |-> IF r.result = <<>> THEN <<>> ELSE <<r.result[1]>>]

Catalog_search(h, bks, p) == SearchLoop(h, bks, p, 1, <<>>)

-----------------------------------------------------------------------------
(* class User and its variants *)

User_ctor(n) == [name |-> n, borrowed |-> 0]

Student_ctor(n, f, y) ==
    [kind |-> "Student", faculty |-> f, yearStudy |-> y] @@ User_ctor(n)

Librarian_ctor(n, id) ==
    [kind |-> "Librarian", employeeId |-> id] @@ User_ctor(n)

User_borrowBook(u) == [u EXCEPT !.borrowed = @ + 1]

User_returnBook_unguarded(u) == [u EXCEPT !.borrowed = @ - 1]

User_returnBook(u) ==
    IF u.borrowed > 0 THEN [u EXCEPT !.borrowed = @ - 1] ELSE u

Student_canBorrow_inclusive(u) == u.borrowed <= StudentLimit

Student_canBorrow(u) == u.borrowed < StudentLimit

Librarian_canBorrow(u) == TRUE

User_canBorrow(u) ==
    CASE u.kind = "Student" -> Student_canBorrow(u)
      [] u.kind = "Librarian" -> Librarian_canBorrow(u)

-----------------------------------------------------------------------------
(* class Library *)

\* int newBookId(): the value returned and the counter afterwards
Library_newBookId_pre(n) == [val |-> n + 1, next |-> n + 1]

Library_newBookId(n) == [val |-> n, next |-> n + 1]

Library_addStudent(us, n, f, y) == Append(us, Student_ctor(n, f, y))

Library_addLibrarian(us, n, id) == Append(us, Librarian_ctor(n, id))

-----------------------------------------------------------------------------
(* The state after construction: `Library lib;` and nothing read yet *)

NoLoc == [type |-> 0, title |-> <<>>, author |-> <<>>, year |-> 0,
          genre |-> <<>>, id |-> 0, n |-> <<>>, f |-> <<>>]

NoAct == [kind |-> "none", at |-> "none", ok |-> TRUE, val |-> 0, bad |-> FALSE]

LibraryInit ==
    /\ heap = [a \in Addr |-> NoBook]
    /\ books = <<>>
    /\ users = <<>>
    /\ nextBookId = 1
    /\ owned = {}
    /\ retOp = "none" /\ retObj = 0 /\ retVal = FALSE
    /\ cycle = [a \in Addr |-> "none"]
    /\ issued = <<>>

StreamInit ==
    /\ cin = [buf |-> <<>>, fail |-> FALSE, eof |-> FALSE]
    /\ closed = FALSE
    /\ loc = NoLoc
    /\ act = NoAct

Init == LibraryInit /\ StreamInit /\ pc = "api"

-----------------------------------------------------------------------------
(* Calling code of Book and Catalog: every call a client can make *)

Herbert == <<"H", "e", "r", "b", "e", "r", "t">>
SciFi == <<"S", "c", "i", "F", "i">>

\* the values a client constructs a book from: kind, title, measurement
BookInputs ==
    {<<"PrintedBook", Dune, 412>>, <<"EBook", Emma, 25>>, <<"AudioBook", Dune, 30>>}

Construct(in, i) ==
    CASE in[1] = "PrintedBook" ->
            PrintedBook_ctor(i, in[2], Author_ctor(Herbert), 1965, SciFi, in[3])
      [] in[1] = "EBook" ->
            EBook_ctor(i, in[2], Author_ctor(Herbert), 1965, SciFi, in[3])
      [] in[1] = "AudioBook" ->
            AudioBook_ctor(i, in[2], Author_ctor(Herbert), 1965, SciFi, in[3])

\* SomeBook b(lib.newBookId(), ...): an object the client owns
NewBook(in) ==
    /\ Cardinality(owned) < MaxOwned
    /\ HasRoom(heap)
    /\ LET r == Library_newBookId(nextBookId)
           a == Alloc(heap)
       IN  /\ heap' = [heap EXCEPT ![a] = Construct(in, r.val)]
           /\ nextBookId' = r.next
           /\ issued' = Append(issued, r.val)
           /\ owned' = owned \cup {a}
           /\ cycle' = [cycle EXCEPT ![a] = "ctor"]
           /\ retOp' = "ctor" /\ retObj' = a /\ retVal' = r.val
    /\ UNCHANGED <<books, users>>
    /\ UNCHANGED mainVars

Reachable == owned \cup Range(books)

CallBorrow(a) ==
    /\ a \in Reachable
    /\ LET r == Book_borrow(heap[a])
       IN  /\ heap' = [heap EXCEPT ![a] = r.self]
           /\ retOp' = "borrow" /\ retObj' = a /\ retVal' = r.val
           /\ cycle' = IF a \in owned
                       THEN [cycle EXCEPT ![a] =
                                IF r.val THEN "borrow_ok" ELSE "borrow_fail"]
                       ELSE cycle
    /\ UNCHANGED <<books, users, nextBookId, owned, issued>>
    /\ UNCHANGED mainVars

CallReturnBook(a) ==
    /\ a \in Reachable
    /\ heap' = [heap EXCEPT ![a] = Book_returnBook(heap[a])]
    /\ retOp' = "returnBook" /\ retObj' = a /\ retVal' = TRUE
    /\ cycle' = IF a \in owned THEN [cycle EXCEPT ![a] = "returnBook"] ELSE cycle
    /\ UNCHANGED <<books, users, nextBookId, owned, issued>>
    /\ UNCHANGED mainVars

CallAddBook(a) ==
    /\ a \in owned
    /\ Len(books) < MaxStored
    /\ HasRoom(heap)
    /\ LET r == Catalog_addBook(heap, books, a)
       IN  /\ heap' = r.heap
           /\ books' = r.books
           /\ retOp' = "addBook" /\ retObj' = a /\ retVal' = Last(r.books)
    /\ UNCHANGED <<users, nextBookId, owned, cycle, issued>>
    /\ UNCHANGED mainVars

CallSearch(p) ==
    /\ LET r == Catalog_search(heap, books, p)
       IN  /\ heap' = r.heap
           /\ retOp' = "search" /\ retObj' = p /\ retVal' = r.result
    /\ UNCHANGED <<books, users, nextBookId, owned, cycle, issued>>
    /\ UNCHANGED mainVars

NextCatalog ==
    \/ \E in \in BookInputs : NewBook(in)
    \/ \E a \in Addr : CallBorrow(a)
    \/ \E a \in Addr : CallReturnBook(a)
    \/ \E a \in Addr : CallAddBook(a)
    \/ \E p \in Preds : CallSearch(p)

SpecCatalog == Init /\ [][NextCatalog]_vars

-----------------------------------------------------------------------------
(* Calling code of Library and User *)

Ana == <<"A", "n", "a">>
CS == <<"C", "S">>
E7 == <<"E", "7">>

CallNewBookId ==
    /\ Len(issued) < MaxIds
    /\ LET r == Library_newBookId(nextBookId)
       IN  /\ nextBookId' = r.next
           /\ issued' = Append(issued, r.val)
           /\ retOp' = "newBookId" /\ retObj' = 0 /\ retVal' = r.val
    /\ UNCHANGED <<heap, books, users, owned, cycle>>
    /\ UNCHANGED mainVars

CallAddStudent(n, f, y) ==
    /\ Len(users) < MaxUsers
    /\ users' = Library_addStudent(users, n, f, y)
    /\ retOp' = "addStudent" /\ retObj' = Len(users) + 1 /\ retVal' = TRUE
    /\ UNCHANGED <<heap, books, nextBookId, owned, cycle, issued>>
    /\ UNCHANGED mainVars

CallAddLibrarian(n, id) ==
    /\ Len(users) < MaxUsers
    /\ users' = Library_addLibrarian(users, n, id)
    /\ retOp' = "addLibrarian" /\ retObj' = Len(users) + 1 /\ retVal' = TRUE
    /\ UNCHANGED <<heap, books, nextBookId, owned, cycle, issued>>
    /\ UNCHANGED mainVars

CallUserBorrowBook(i) ==
    /\ i \in 1..Len(users)
    /\ users[i].borrowed < MaxBorrowed
    /\ users' = [users EXCEPT ![i] = User_borrowBook(users[i])]
    /\ retOp' = "borrowBook" /\ retObj' = i /\ retVal' = TRUE
    /\ UNCHANGED <<heap, books, nextBookId, owned, cycle, issued>>
    /\ UNCHANGED mainVars

CallUserReturnBook(i) ==
    /\ i \in 1..Len(users)
    /\ users' = [users EXCEPT ![i] = User_returnBook(users[i])]
    /\ retOp' = "User::returnBook" /\ retObj' = i /\ retVal' = TRUE
    /\ UNCHANGED <<heap, books, nextBookId, owned, cycle, issued>>
    /\ UNCHANGED mainVars

CallCanBorrow(i) ==
    /\ i \in 1..Len(users)
    /\ retOp' = "canBorrow" /\ retObj' = i /\ retVal' = User_canBorrow(users[i])
    /\ UNCHANGED <<heap, books, users, nextBookId, owned, cycle, issued>>
    /\ UNCHANGED mainVars

NextLibrary ==
    \/ CallNewBookId
    \/ \E y \in 1..2 : CallAddStudent(Ana, CS, y)
    \/ CallAddLibrarian(Ana, E7)
    \/ \E i \in 1..MaxUsers : CallUserBorrowBook(i)
    \/ \E i \in 1..MaxUsers : CallUserReturnBook(i)
    \/ \E i \in 1..MaxUsers : CallCanBorrow(i)

SpecLibrary == Init /\ [][NextLibrary]_vars

-----------------------------------------------------------------------------
(* std::cin as main() uses it.  s is the stream [buf, fail, eof], cl tells  *)
(* that no more input will arrive.  An operation that needs a character    *)
(* when buf is empty waits (blocked) unless cl, and then meets the end of   *)
(* the input.  A number is read as its digits; tokens here are short, so   *)
(* none is out of the range of int.                                        *)

Digits == <<"0", "1", "2", "3", "4", "5", "6", "7", "8", "9">>
IsDigit(c) == \E d \in 1..10 : Digits[d] = c
DigitVal(c) == (CHOOSE d \in 1..10 : Digits[d] = c) - 1
IsSpace(c) == c \in {" ", "\n"}

Good(s) == ~s.fail /\ ~s.eof

RECURSIVE SkipWs(_)
SkipWs(b) == IF b # <<>> /\ IsSpace(Head(b)) THEN SkipWs(Tail(b)) ELSE b

\* how many digits b starts with
RECURSIVE NumDigits(_)
NumDigits(b) == IF b # <<>> /\ IsDigit(Head(b)) THEN 1 + NumDigits(Tail(b)) ELSE 0

\* the number the first k characters of b spell, after the digits spelling acc
RECURSIVE NumVal(_, _, _)
NumVal(b, k, acc) ==
    IF k = 0 THEN acc ELSE NumVal(Tail(b), k - 1, 10 * acc + DigitVal(Head(b)))

Waiting(s) == [cin |-> s, blocked |-> TRUE, wrote |-> FALSE, val |-> 0, str |-> <<>>]

\* cin >> x for an int x (and for a double, whose digits are read alike):
\* wrote tells whether x was assigned, val the value assigned
Extract(s, cl) ==
    IF ~Good(s)
    THEN [cin |-> [s EXCEPT !.fail = TRUE], blocked |-> FALSE, wrote |-> FALSE, val |-> 0]
    ELSE LET b == SkipWs(s.buf)
             k == NumDigits(b)
             rest == SubSeq(b, k + 1, Len(b))
         IN  IF b = <<>>
             THEN IF cl
                  THEN [cin |-> [buf |-> <<>>, fail |-> TRUE, eof |-> TRUE],
                        blocked |-> FALSE, wrote |-> FALSE, val |-> 0]
                  ELSE Waiting(s)
             ELSE IF k = 0
             THEN [cin |-> [buf |-> b, fail |-> TRUE, eof |-> FALSE],
                   blocked |-> FALSE, wrote |-> TRUE, val |-> 0]
             ELSE IF rest = <<>>
             THEN IF cl
                  THEN [cin |-> [buf |-> <<>>, fail |-> FALSE, eof |-> TRUE],
                        blocked |-> FALSE, wrote |-> TRUE, val |-> NumVal(b, k, 0)]
                  ELSE Waiting(s)
             ELSE [cin |-> [buf |-> rest, fail |-> FALSE, eof |-> FALSE],
                   blocked |-> FALSE, wrote |-> TRUE, val |-> NumVal(b, k, 0)]

\* cin.clear()
Clear(s) == [s EXCEPT !.fail = FALSE, !.eof = FALSE]

\* the place of the first delim in b, 0 when there is none
RECURSIVE Find(_, _, _)
Find(b, delim, i) ==
    IF i > Len(b) THEN 0 ELSE IF b[i] = delim THEN i ELSE Find(b, delim, i + 1)

\* cin.ignore(n, delim); cin.ignore() is cin.ignore(1, EOF)
Ignore(s, cl, n, delim) ==
    IF ~Good(s)
    THEN [cin |-> [s EXCEPT !.fail = TRUE], blocked |-> FALSE]
    ELSE LET j == Find(s.buf, delim, 1)
         IN  IF j # 0 /\ j <= n
             THEN [cin |-> [s EXCEPT !.buf = SubSeq(s.buf, j + 1, Len(s.buf))],
                   blocked |-> FALSE]
             ELSE IF Len(s.buf) >= n
             THEN [cin |-> [s EXCEPT !.buf = SubSeq(s.buf, n + 1, Len(s.buf))],
                   blocked |-> FALSE]
             ELSE IF cl
             THEN [cin |-> [s EXCEPT !.buf = <<>>, !.eof = TRUE], blocked |-> FALSE]
             ELSE [cin |-> s, blocked |-> TRUE]

\* getline(cin, str) into a string that was empty
GetLine(s, cl) ==
    IF ~Good(s)
    THEN [cin |-> [s EXCEPT !.fail = TRUE], blocked |-> FALSE, str |-> <<>>]
    ELSE LET j == Find(s.buf, "\n", 1)
         IN  IF j # 0
             THEN [cin |-> [s EXCEPT !.buf = SubSeq(s.buf, j + 1, Len(s.buf))],
                   blocked |-> FALSE, str |-> SubSeq(s.buf, 1, j - 1)]
             ELSE IF cl
             THEN [cin |-> [buf |-> <<>>, fail |-> s.buf = <<>>, eof |-> TRUE],
                   blocked |-> FALSE, str |-> s.buf]
             ELSE Waiting(s)

\* `cin >> x; cin.ignore();`
ExtractIgnore(s, cl) ==
    LET e == Extract(s, cl)
        g == Ignore(e.cin, cl, 1, "EOF")
    IN  IF e.blocked THEN e
        ELSE [cin |-> g.cin, blocked |-> g.blocked, wrote |-> e.wrote,
              val |-> e.val, ok |-> ~e.cin.fail]

\* the values an int or double that was never assigned may show
Indeterminate == {1, 9}

Values(e) == IF e.wrote THEN {e.val} ELSE Indeterminate

-----------------------------------------------------------------------------
(* main() *)

Book1 == <<"B", "o", "o", "k", "1">>
Book2 == <<"B", "o", "o", "k", "2">>
Book3 == <<"B", "o", "o", "k", "3">>
Author1 == <<"A", "u", "t", "h", "o", "r", "1">>
Author2 == <<"A", "u", "t", "h", "o", "r", "2">>
Author3 == <<"A", "u", "t", "h", "o", "r", "3">>
History == <<"H", "i", "s", "t", "o", "r", "y">>
Poetry == <<"P", "o", "e", "t", "r", "y">>
Drama == <<"D", "r", "a", "m", "a">>

\* lib.getCatalog().addBook(SomeBook(...)): the temporary obj is built, copied
\* into the catalog and destroyed
AddTemporary(h, bks, obj) ==
    LET t == Alloc(h)
        r == Catalog_addBook([h EXCEPT ![t] = obj], bks, t)
    IN  [heap |-> [r.heap EXCEPT ![t] = NoBook], books |-> r.books]

InitMain == LibraryInit /\ StreamInit /\ pc = "seed"

\* the three books added before the loop
Seed ==
    /\ pc = "seed"
    /\ LET i1 == Library_newBookId(nextBookId)
           r1 == AddTemporary(heap, books,
                     PrintedBook_ctor(i1.val, Book1, Author_ctor(Author1), 2020, History, 200))
           i2 == Library_newBookId(i1.next)
           r2 == AddTemporary(r1.heap, r1.books,
                     EBook_ctor(i2.val, Book2, Author_ctor(Author2), 2021, Poetry, 25))
           i3 == Library_newBookId(i2.next)
           r3 == AddTemporary(r2.heap, r2.books,
                     AudioBook_ctor(i3.val, Book3, Author_ctor(Author3), 2019, Drama, 30))
       IN  /\ heap' = r3.heap
           /\ books' = r3.books
           /\ nextBookId' = i3.next
           /\ issued' = issued \o <<i1.val, i2.val, i3.val>>
    /\ pc' = "menu"
    /\ UNCHANGED <<users, owned, retOp, retObj, retVal, cycle, cin, closed, loc, act>>

\* where the loop body goes after a choice was read
Dispatch_strict(choice) ==
    CASE choice = 1 -> "type"
      [] choice = 3 -> "sname"
      [] choice = 4 -> "lname"
      [] choice \in {2, 5} -> "menu"
      [] OTHER -> "done"

Dispatch(choice) ==
    CASE choice = 0 -> "done"
      [] choice = 1 -> "type"
      [] choice = 3 -> "sname"
      [] choice = 4 -> "lname"
      [] OTHER -> "menu"

\* printMenu(); cin >> choice; and the branch taken, up to its first read
MenuRead ==
    /\ pc = "menu"
    /\ LET e == Extract(cin, closed)
       IN  /\ ~e.blocked
           /\ IF e.cin.fail
              THEN LET g == Ignore(Clear(e.cin), closed, IgnoreMax, "\n")
                   IN  /\ ~g.blocked
                       /\ cin' = g.cin
                       /\ pc' = "menu"
                       /\ act' = [kind |-> "int", at |-> "menu", ok |-> FALSE,
                                  val |-> 0, bad |-> TRUE]
              ELSE LET g == Ignore(e.cin, closed, 1, "EOF")
                   IN  /\ ~g.blocked
                       /\ cin' = g.cin
                       /\ pc' = Dispatch(e.val)
                       /\ act' = [kind |-> "int", at |-> "menu", ok |-> TRUE,
                                  val |-> e.val, bad |-> FALSE]
    /\ loc' = NoLoc
    /\ UNCHANGED <<closed, libVars>>

\* cin >> type; cin.ignore();
ReadType ==
    /\ pc = "type"
    /\ LET e == ExtractIgnore(cin, closed)
       IN  /\ ~e.blocked
           /\ cin' = e.cin
           /\ \E v \in Values(e) :
                /\ loc' = [loc EXCEPT !.type = v]
                /\ act' = [kind |-> "int", at |-> pc, ok |-> e.ok, val |-> v,
                           bad |-> act.bad \/ ~e.ok]
    /\ pc' = "title"
    /\ UNCHANGED <<closed, libVars>>

\* getline(cin, str) at from, then on to to
ReadLine(from, field, to) ==
    /\ pc = from
    /\ LET g == GetLine(cin, closed)
       IN  /\ ~g.blocked
           /\ cin' = g.cin
           /\ loc' = [loc EXCEPT ![field] = g.str]
           /\ act' = [kind |-> "line", at |-> pc, ok |-> ~g.cin.fail, val |-> 0,
                      bad |-> act.bad]
    /\ pc' = to
    /\ UNCHANGED <<closed, libVars>>

ReadTitle == ReadLine("title", "title", "author")
ReadAuthor == ReadLine("author", "author", "year")

\* cin >> year; cin.ignore();
ReadYear ==
    /\ pc = "year"
    /\ LET e == ExtractIgnore(cin, closed)
       IN  /\ ~e.blocked
           /\ cin' = e.cin
           /\ \E v \in Values(e) :
                /\ loc' = [loc EXCEPT !.year = v]
                /\ act' = [kind |-> "int", at |-> pc, ok |-> e.ok, val |-> v,
                           bad |-> act.bad \/ ~e.ok]
    /\ pc' = "genre"
    /\ UNCHANGED <<closed, libVars>>

\* getline(cin, genre); int id = lib.newBookId();
ReadGenre ==
    /\ pc = "genre"
    /\ LET g == GetLine(cin, closed)
           r == Library_newBookId(nextBookId)
       IN  /\ ~g.blocked
           /\ cin' = g.cin
           /\ loc' = [loc EXCEPT !.genre = g.str, !.id = r.val]
           /\ nextBookId' = r.next
           /\ issued' = Append(issued, r.val)
           /\ act' = [kind |-> "line", at |-> pc, ok |-> ~g.cin.fail, val |-> 0,
                      bad |-> act.bad]
    /\ pc' = "measure"
    /\ UNCHANGED <<closed, heap, books, users, owned, retOp, retObj, retVal, cycle>>

\* the book the branch on type builds from the locals l and the measurement m
MakeBook_swapped(l, m) ==
    CASE l.type = 1 ->
            PrintedBook_ctor(l.year, l.title, Author_ctor(l.author), l.id, l.genre, m)
      [] l.type = 2 ->
            EBook_ctor(l.year, l.title, Author_ctor(l.author), l.id, l.genre, 10 * m)
      [] OTHER ->
            AudioBook_ctor(l.year, l.title, Author_ctor(l.author), l.id, l.genre, 10 * m)

MakeBook(l, m) ==
    CASE l.type = 1 ->
            PrintedBook_ctor(l.id, l.title, Author_ctor(l.author), l.year, l.genre, m)
      [] l.type = 2 ->
            EBook_ctor(l.id, l.title, Author_ctor(l.author), l.year, l.genre, 10 * m)
      [] OTHER ->
            AudioBook_ctor(l.id, l.title, Author_ctor(l.author), l.year, l.genre, 10 * m)

\* cin >> pages (or size, or dur); cin.ignore(); lib.getCatalog().addBook(...)
ReadMeasure ==
    /\ pc = "measure"
    /\ LET e == ExtractIgnore(cin, closed)
       IN  /\ ~e.blocked
           /\ cin' = e.cin
           /\ \E v \in Values(e) :
                LET r == AddTemporary(heap, books, MakeBook(loc, v))
                IN  /\ heap' = r.heap
                    /\ books' = r.books
                    /\ act' = [kind |-> "int", at |-> pc, ok |-> e.ok, val |-> v,
                               bad |-> act.bad \/ ~e.ok]
    /\ pc' = "menu"
    /\ loc' = NoLoc
    /\ UNCHANGED <<closed, users, nextBookId, owned, retOp, retObj, retVal, cycle, issued>>

ReadName == ReadLine("sname", "n", "faculty")
ReadFaculty == ReadLine("faculty", "f", "syear")

\* cin >> y; cin.ignore(); lib.addStudent(n, f, y);
ReadStudyYear ==
    /\ pc = "syear"
    /\ LET e == ExtractIgnore(cin, closed)
       IN  /\ ~e.blocked
           /\ cin' = e.cin
           /\ \E v \in Values(e) :
                /\ users' = Library_addStudent(users, loc.n, loc.f, v)
                /\ act' = [kind |-> "int", at |-> pc, ok |-> e.ok, val |-> v,
                           bad |-> act.bad \/ ~e.ok]
    /\ pc' = "menu"
    /\ loc' = NoLoc
    /\ UNCHANGED <<closed, heap, books, nextBookId, owned, retOp, retObj, retVal, cycle, issued>>

ReadLibrarianName == ReadLine("lname", "n", "empid")

\* getline(cin, id); lib.addLibrarian(n, id);
ReadEmployeeId ==
    /\ pc = "empid"
    /\ LET g == GetLine(cin, closed)
       IN  /\ ~g.blocked
           /\ cin' = g.cin
           /\ users' = Library_addLibrarian(users, loc.n, g.str)
           /\ act' = [kind |-> "line", at |-> pc, ok |-> ~g.cin.fail, val |-> 0,
                      bad |-> act.bad]
    /\ pc' = "menu"
    /\ loc' = NoLoc
    /\ UNCHANGED <<closed, heap, books, nextBookId, owned, retOp, retObj, retVal, cycle, issued>>

-----------------------------------------------------------------------------
(* Whoever types at the terminal: a line when main() waits for one *)

IntPcs == {"menu", "type", "year", "measure", "syear"}
LinePcs == {"title", "author", "genre", "sname", "faculty", "lname", "empid"}

Blocked ==
    \/ pc \in IntPcs /\ Extract(cin, closed).blocked
    \/ pc \in LinePcs /\ GetLine(cin, closed).blocked

MenuLines ==
    {<<"0">>, <<"1">>, <<"2">>, <<"3">>, <<"4">>, <<"5">>, <<"7">>, <<"1", "0">>,
     <<"z">>, <<"1", "z">>, <<>>}
TypeLines == {<<"1">>, <<"2">>, <<"z">>}
NumLines == {<<"7">>, <<"z">>}
StrLines == {<<"a">>}

Lines == MenuLines \cup TypeLines \cup NumLines \cup StrLines

ChoiceOf(l) == NumVal(l, NumDigits(l), 0)

LinesAt ==
    IF pc = "menu"
    THEN {l \in MenuLines :
            \/ NumDigits(l) = 0
            \/ /\ ChoiceOf(l) = 1 => Len(books) - SeedBooks < MaxAdded
               /\ ChoiceOf(l) \in {3, 4} => Len(users) < MaxMenuUsers}
    ELSE IF pc = "type" THEN TypeLines
    ELSE IF pc \in IntPcs THEN NumLines
    ELSE StrLines

\* what is still unread when main() waits: a waiting cin >> x has skipped the
\* white space before it
Unread == IF pc \in IntPcs THEN SkipWs(cin.buf) ELSE cin.buf

TypeLine(l) ==
    /\ Blocked /\ ~closed
    /\ l \in LinesAt
    /\ cin' = [cin EXCEPT !.buf = Unread \o l \o <<"\n">>]
    /\ act' = [act EXCEPT !.kind = "env"]
    /\ UNCHANGED <<pc, closed, loc, libVars>>

\* a last line that no newline ends
TypeLast(l) ==
    /\ Blocked /\ ~closed
    /\ l \in LinesAt /\ l # <<>>
    /\ cin' = [cin EXCEPT !.buf = Unread \o l]
    /\ closed' = TRUE
    /\ act' = [act EXCEPT !.kind = "env"]
    /\ UNCHANGED <<pc, loc, libVars>>

EndInput ==
    /\ Blocked /\ ~closed
    /\ closed' = TRUE
    /\ act' = [act EXCEPT !.kind = "env"]
    /\ UNCHANGED <<pc, cin, loc, libVars>>

NextMain ==
    \/ Seed
    \/ MenuRead
    \/ ReadType
    \/ ReadTitle
    \/ ReadAuthor
    \/ ReadYear
    \/ ReadGenre
    \/ ReadMeasure
    \/ ReadName
    \/ ReadFaculty
    \/ ReadStudyYear
    \/ ReadLibrarianName
    \/ ReadEmployeeId
    \/ \E l \in Lines : TypeLine(l)
    \/ \E l \in Lines : TypeLast(l)
    \/ EndInput

SpecMain == InitMain /\ [][NextMain]_vars

-----------------------------------------------------------------------------
(* Properties of Book and Catalog, under SpecCatalog *)

BookCall(op, a) == retOp' = op /\ retObj' = a

\* C1: borrow() returns true exactly when the book was available just before
\* the call; on success available becomes false and nothing else of the book
\* changes; on failure the book is left as it was.
C1_BorrowContract ==
    [][\A a \in Addr : BookCall("borrow", a) =>
          /\ retVal' = heap[a].available
          /\ retVal' => heap'[a] = [heap[a] EXCEPT !.available = FALSE]
          /\ ~retVal' => heap'[a] = heap[a]
          /\ books' = books]_vars

C1_Witness ==
    /\ retOp = "borrow" /\ ~retVal
    /\ heap[retObj].kind = "AudioBook"
    /\ retObj \in Range(books)

\* C2: on one constructed book, whatever is called on other books in
\* between, a borrow() right after a successful borrow() fails, a borrow()
\* right after a returnBook() succeeds, the first borrow() succeeds, and a
\* borrow() succeeds only as the first call or right after a returnBook(): so
\* a returnBook() lies between any two successful borrow() calls.
C2_OncePerCycle ==
    [][\A a \in owned : BookCall("borrow", a) =>
          /\ cycle[a] = "borrow_ok" => ~retVal'
          /\ cycle[a] = "returnBook" => retVal'
          /\ cycle[a] = "ctor" => retVal'
          /\ retVal' => cycle[a] \in {"ctor", "returnBook"}]_vars

C2_Witness ==
    /\ retOp = "borrow" /\ ~retVal
    /\ retObj \in owned
    /\ cycle[retObj] = "borrow_fail"
    /\ heap[retObj].kind = "PrintedBook"

\* C6: addBook(b) stores one new book whose attributes are those of b at the
\* time of the call, availability included; afterwards borrow() and
\* returnBook() on an object of the caller leave every stored book as it was,
\* and on a stored book leave every object of the caller as it was.
C6_IndependentCopy ==
    [][/\ retOp' = "addBook" =>
            /\ Len(books') = Len(books) + 1
            /\ SubSeq(books', 1, Len(books)) = books
            /\ heap'[Last(books')] = heap[retObj']
            /\ \A a \in Reachable : heap'[a] = heap[a]
       /\ retOp' \in {"borrow", "returnBook"} =>
            /\ retObj' \in owned =>
                  \A i \in 1..Len(books) : heap'[books[i]] = heap[books[i]]
            /\ retObj' \in Range(books) =>
                  \A o \in owned : heap'[o] = heap[o]]_vars

\* a stored copy and the caller's original of it, in different states
C6_Witness ==
    \E i \in 1..Len(books) : \E o \in owned :
        /\ heap[books[i]].id = heap[o].id
        /\ heap[books[i]].kind = "EBook"
        /\ heap[books[i]].available /\ ~heap[o].available

\* what a predicate says of a book
Satisfies(p, b) ==
    \/ p = "available" /\ b.available
    \/ p = "titleDune" /\ b.title = <<"D", "u", "n", "e">>
    \/ p = "any"

\* C7: search(p) returns the stored books that satisfy p when it is called,
\* each once, in insertion order, whatever their variant, and changes
\* neither the catalog nor a book.
C7_SearchExact ==
    [][retOp' = "search" =>
          /\ retVal' = SelectSeq(books, LAMBDA a : Satisfies(retObj', heap[a]))
          /\ \A i, j \in 1..Len(retVal') : i # j => retVal'[i] # retVal'[j]
          /\ heap' = heap
          /\ books' = books]_vars

\* of two stored books the first is borrowed: the search for the available
\* ones returned the second alone
C7_Witness ==
    /\ retOp = "search" /\ retObj = "available"
    /\ Len(books) = 2
    /\ ~heap[books[1]].available
    /\ retVal = <<books[2]>>

-----------------------------------------------------------------------------
(* Properties of User and Library, under SpecLibrary *)

\* C3: canBorrow() of a Student is true exactly when borrowed < 5, and of a
\* Librarian at every count, however the count was reached.
C3_CanBorrow ==
    \A i \in 1..Len(users) :
        (retOp = "canBorrow" /\ retObj = i) =>
            retVal = (users[i].kind = "Librarian" \/ users[i].borrowed < 5)

\* a student who reached five by going past it and returning
C3_Witness ==
    /\ retOp = "canBorrow" /\ ~retVal
    /\ users[retObj].kind = "Student"
    /\ users[retObj].borrowed = 5
    /\ \E i \in 1..Len(users) : users[i].kind = "Librarian"

\* C4: borrowed is never negative: a new user has 0, borrowBook() adds one
\* whatever canBorrow() says, returnBook() takes one off a positive count and
\* leaves a count of zero alone.
C4_CountNeverNegative ==
    [][/\ \A i \in 1..Len(users') : users'[i].borrowed >= 0
       /\ retOp' \in {"addStudent", "addLibrarian"} =>
            users'[retObj'].borrowed = 0
       /\ retOp' = "borrowBook" =>
            users'[retObj'].borrowed = users[retObj'].borrowed + 1
       /\ retOp' = "User::returnBook" =>
            users'[retObj'].borrowed =
                IF users[retObj'].borrowed > 0
                THEN users[retObj'].borrowed - 1 ELSE 0]_vars

\* returnBook() was called on a count of zero, next to a student past the limit
C4_Witness ==
    /\ retOp = "User::returnBook"
    /\ users[retObj].borrowed = 0
    /\ \E i \in 1..Len(users) :
          users[i].kind = "Student" /\ users[i].borrowed > 5

\* C5: the k-th call of newBookId() returns k, and the counter is one more
\* than the number of calls made: it never goes back, no value comes twice.
C5_ConsecutiveIds ==
    /\ \A k \in 1..Len(issued) : issued[k] = k
    /\ nextBookId = Len(issued) + 1

C5_Witness ==
    /\ retOp = "newBookId" /\ retVal = 3
    /\ Len(users) > 0

-----------------------------------------------------------------------------
(* Properties of main(), under SpecMain *)

MenuChoiceRead == pc = "menu" /\ act'.kind = "int" /\ act'.at = "menu"

\* C8: while input keeps arriving, a numeric read that fails, at any prompt,
\* is followed by the same prompt with the failure cleared, and the command
\* in which a numeric read failed adds no book and no user and issues no
\* book id.
C8_MalformedNumberReprompts ==
    [][~closed' =>
          /\ (act'.kind = "int" /\ ~act'.ok) => (pc' = pc /\ ~cin'.fail)
          /\ act'.bad => UNCHANGED <<books, users, nextBookId>>]_vars

\* the same holds of the prompt for the menu choice alone
C8_MenuChoiceReprompts ==
    [][(MenuChoiceRead /\ ~act'.ok) =>
          (pc' = pc /\ ~cin'.fail /\ UNCHANGED <<books, users, nextBookId>>)]_vars

\* C9: whenever the loop is about to prompt for a choice, the catalog holds
\* nextBookId - 1 books and the i-th of them has id i.
C9_DistinctIds ==
    pc = "menu" =>
        /\ Len(books) = nextBookId - 1
        /\ \A i \in 1..Len(books) : heap[books[i]].id = i

\* back at the menu after an "Add book" whose last numeric read failed
C9_Witness ==
    /\ pc = "menu"
    /\ Len(books) = SeedBooks + 1
    /\ act.at = "measure" /\ act.bad

\* C10: the loop ends only by a choice read as 0, every choice read as 0 ends
\* it, and ending it changes neither the catalog nor the users nor
\* nextBookId; once ended it stays ended.
C10_ExitOnlyOnZero ==
    [][/\ (pc' = "done" /\ pc # "done") =>
            /\ MenuChoiceRead /\ act'.ok /\ act'.val = 0
            /\ UNCHANGED <<heap, books, users, nextBookId>>
       /\ (MenuChoiceRead /\ act'.ok /\ act'.val = 0) => pc' = "done"
       /\ pc = "done" => pc' = "done"]_vars

\* ended by a 0 that the end of the input, not a newline, follows, with a
\* book and a user added before
C10_Witness ==
    /\ pc = "done"
    /\ act.at = "menu" /\ act.ok /\ act.val = 0
    /\ cin.eof
    /\ Len(books) > SeedBooks /\ Len(users) > 0

\* the loop turning on an input that has ended
C10_Exhausted ==
    /\ pc = "menu" /\ closed /\ cin.buf = <<>>
    /\ act.at = "menu" /\ ~act.ok

====
